---------------------------- MODULE Spec2Model ----------------------------
(***************************************************************************)
(* Model of the XML-to-record extraction engine of the bus data            *)
(* repository: BusDataExtractor (src/bus_xml_extractor.py, the targeted    *)
(* path strategy) and XMLExtractor (src/xml_to_csv_extractor.py, the tag   *)
(* suffix scan strategy).                                                  *)
(*                                                                         *)
(* Encoding.  A Python str is a tuple of one-character strings; the empty  *)
(* str is <<>>.  An ElementTree element is a record                        *)
(*   [ns, tag, attrs, text, children]                                      *)
(* where the ElementTree tag "{uri}local" is the pair (ns, tag), ns = ""   *)
(* for an unqualified tag, and text = <<>> stands for both None and "".    *)
(***************************************************************************)
EXTENDS Integers, Sequences, FiniteSets, TLC

(* Bounds of the model. *)
MaxLen == 3
MaxValue == 30
MaxFiles == 3

VARIABLES
    variant,        \* which extractor class was constructed: "bus" | "xml"
    xml_files,      \* the documents of the input folder, in listing order
    pc,             \* position in process_all_files / run
    idx,            \* number of documents the batch loop has handled
    namespace,      \* BusDataExtractor.namespace ("" is None)
    stops_data,     \* BusDataExtractor.stops_data
    operator_info,  \* BusDataExtractor.operator_info (insertion ordered)
    service_info,   \* BusDataExtractor.service_info
    timing_segments,\* BusDataExtractor.timing_segments
    all_segments,   \* process_all_files: all_segments
    summary_stats,  \* process_all_files: summary_stats
    results,        \* the values process_single_file returned, in call order
    quality_metrics,\* the value calculate_data_quality returned
    all_stops,      \* create_stops_csv: all_stops (insertion ordered rows)
    stops_count,    \* the value create_stops_csv returned
    all_records,    \* XMLExtractor.all_records
    all_fields,     \* XMLExtractor.all_fields
    field_counts,   \* XMLExtractor.field_counts
    files_processed,\* XMLExtractor.files_processed
    locals,         \* process_file: its locals at the end of its last full run
    duration_str,   \* the argument of a parse_duration call
    dur_parts,      \* how duration_str was written: its H, M, S components
    dur_result,     \* the value the call returned
    dur_pc          \* "input", then which variant was called: "bus" | "xml"

durVars == <<duration_str, dur_parts, dur_result, dur_pc>>
busVars == <<namespace, stops_data, operator_info, service_info, timing_segments,
             all_segments, summary_stats, results, quality_metrics,
             all_stops, stops_count>>
xVars == <<all_records, all_fields, field_counts, files_processed, locals>>
batchVars == <<variant, xml_files, pc, idx>>
vars == <<variant, xml_files, pc, idx, namespace, stops_data, operator_info,
          service_info, timing_segments, all_segments, summary_stats, results,
          quality_metrics, all_records, all_fields, field_counts, files_processed,
          locals, duration_str, dur_parts, dur_result, dur_pc, all_stops,
          stops_count>>

---------------------------------------------------------------------------
(* Python str helpers. *)

Whitespace == {" "}

RECURSIVE LStrip(_)
LStrip(t) == IF t # <<>> /\ Head(t) \in Whitespace THEN LStrip(Tail(t)) ELSE t

RECURSIVE RStrip(_)
RStrip(t) ==
    IF t # <<>> /\ t[Len(t)] \in Whitespace
    THEN RStrip(SubSeq(t, 1, Len(t) - 1))
    ELSE t

(* str.strip() *)
Strip(t) == RStrip(LStrip(t))

(* All str values of length lo..hi over an alphabet. *)
Strings(alphabet, lo, hi) ==
    UNION {[1..n -> alphabet] : n \in lo..hi}

Digits == {"0", "1", "2", "3", "4", "5", "6", "7", "8", "9"}

DigitVal(c) ==
    CASE c = "0" -> 0 [] c = "1" -> 1 [] c = "2" -> 2 [] c = "3" -> 3
      [] c = "4" -> 4 [] c = "5" -> 5 [] c = "6" -> 6 [] c = "7" -> 7
      [] c = "8" -> 8 [] c = "9" -> 9

(* int(s) of a non-empty digit string; int(group or 0) of an absent group. *)
RECURSIVE IntOf(_)
IntOf(s) ==
    IF s = <<>> THEN 0
    ELSE 10 * IntOf(SubSeq(s, 1, Len(s) - 1)) + DigitVal(s[Len(s)])

---------------------------------------------------------------------------
(* The duration pattern PT(?:(\d+)H)?(?:(\d+)M)?(?:(\d+)S)? under re.match. *)

(* First position at or after p that holds no digit: where a greedy \d+   *)
(* started at p stops.                                                     *)
RECURSIVE DigitsEnd(_, _)
DigitsEnd(s, p) ==
    IF p <= Len(s) /\ s[p] \in Digits THEN DigitsEnd(s, p + 1) ELSE p

(* One optional group (?:(\d+)X)? tried at position p. *)
OptGroup(s, p, letter) ==
    LET e == DigitsEnd(s, p) IN
    IF e > p /\ e <= Len(s) /\ s[e] = letter
    THEN [group |-> SubSeq(s, p, e - 1), next |-> e + 1]
    ELSE [group |-> <<>>, next |-> p]

(* re.match(pattern, s): matched, the three groups (<<>> is None) and the *)
(* position after the match.                                               *)
DurationMatch(s) ==
    IF Len(s) >= 2 /\ s[1] = "P" /\ s[2] = "T"
    THEN LET h == OptGroup(s, 3, "H")
             m == OptGroup(s, h.next, "M")
             sec == OptGroup(s, m.next, "S")
         IN [matched |-> TRUE, g1 |-> h.group, g2 |-> m.group,
             g3 |-> sec.group, end |-> sec.next]
    ELSE [matched |-> FALSE, g1 |-> <<>>, g2 |-> <<>>, g3 |-> <<>>, end |-> 1]

(* A None argument (no str at all). *)
NoneStr == <<"None">>

(* Python None as a returned value; every decoded value is >= 0. *)
None == -1

DurationSeconds_minutes_as_hours(mt) ==
    IntOf(mt.g1) * 3600 + IntOf(mt.g2) * 3600 + IntOf(mt.g3)

DurationSeconds(mt) ==
    IntOf(mt.g1) * 3600 + IntOf(mt.g2) * 60 + IntOf(mt.g3)

(* BusDataExtractor.parse_duration *)
parse_duration(iso_duration) ==
    IF iso_duration = NoneStr \/ iso_duration = <<>> THEN 0
    ELSE LET match == DurationMatch(iso_duration) IN
         IF match.matched THEN DurationSeconds(match) ELSE 0

(* XMLExtractor.parse_duration *)
X_parse_duration(duration_str_) ==
    IF duration_str_ = NoneStr \/ duration_str_ = <<>> THEN None
    ELSE LET match == DurationMatch(duration_str_) IN
         IF match.matched THEN DurationSeconds(match) ELSE None

---------------------------------------------------------------------------
(* ElementTree. *)

E(ns, tag, attrs, text, children) ==
    [ns |-> ns, tag |-> tag, attrs |-> attrs, text |-> text, children |-> children]

(* F(v), with v evaluated once. *)
Bind(v, F(_)) == CHOOSE y \in {F(x) : x \in {v}} : TRUE

(* The result of a find() that found nothing. *)
NoneElem == E("", "#None", <<>>, <<>>, <<>>)

(* An empty dict; a dict with str keys is a record, dict.get is DictGet. *)
EmptyDict == <<>>

DictGet(d, key, default) == IF key \in DOMAIN d THEN d[key] ELSE default

DictSet(d, key, value) == (key :> value) @@ d

(* element.get(name, default) *)
Attr(e, name, default) == DictGet(e.attrs, name, default)

RECURSIVE Iter(_)
RECURSIVE IterAll(_)
(* element.iter(): the element and its descendants in document order. *)
Iter(e) == <<e>> \o IterAll(e.children)
IterAll(es) == IF es = <<>> THEN <<>> ELSE Iter(Head(es)) \o IterAll(Tail(es))

(* A qualified tag as get_tag builds it, and its match against an element. *)
QName(ns, name) == [ns |-> ns, tag |-> name]
HasTag(e, q) == e.ns = q.ns /\ e.tag = q.tag

(* tag.split('}')[-1] *)
LocalName(e) == e.tag

(* The two path steps the code uses: 'tag' and './/tag'. *)
Child(q) == <<[deep |-> FALSE, q |-> q]>>
Desc(q) == <<[deep |-> TRUE, q |-> q]>>

StepAll(e, step) ==
    SelectSeq(IF step.deep THEN IterAll(e.children) ELSE e.children,
              LAMBDA c : HasTag(c, step.q))

RECURSIVE FindAll(_, _)
RECURSIVE FindAllFrom(_, _)
(* element.findall(path) *)
FindAll(e, path) ==
    IF Len(path) = 1 THEN StepAll(e, path[1])
    ELSE FindAllFrom(StepAll(e, path[1]), Tail(path))
FindAllFrom(es, path) ==
    IF es = <<>> THEN <<>>
    ELSE FindAll(Head(es), path) \o FindAllFrom(Tail(es), path)

(* element.find(path) *)
Find(e, path) ==
    LET all == FindAll(e, path) IN IF all = <<>> THEN NoneElem ELSE Head(all)

---------------------------------------------------------------------------
(* BusDataExtractor: the targeted path strategy. *)

(* find_namespace: self.namespace after the call, given it before. *)
find_namespace(self_namespace, root_elem) ==
    IF root_elem.ns # "" THEN root_elem.ns ELSE self_namespace

get_tag(self_namespace, name) == QName(self_namespace, name)

safe_get_text(element, path, default) ==
    IF element = NoneElem THEN default
    ELSE LET found == Find(element, path) IN
         IF found # NoneElem /\ found.text # <<>> THEN Strip(found.text)
         ELSE default

StopRecordOf(ns, stop, stop_id) ==
    [stop_id |-> stop_id,
     stop_name |-> safe_get_text(stop, Child(get_tag(ns, "CommonName")), <<>>),
     longitude |-> safe_get_text(stop, Desc(get_tag(ns, "Longitude")), <<>>),
     latitude |-> safe_get_text(stop, Desc(get_tag(ns, "Latitude")), <<>>)]

RECURSIVE StopsLoop(_, _, _)
StopsLoop(ns, stop_refs, data) ==
    IF stop_refs = <<>> THEN data
    ELSE LET stop == Head(stop_refs)
             stop_id == safe_get_text(stop, Child(get_tag(ns, "StopPointRef")), <<>>)
         IN StopsLoop(ns, Tail(stop_refs),
                      IF stop_id # <<>>
                      THEN DictSet(data, stop_id, StopRecordOf(ns, stop, stop_id))
                      ELSE data)

(* extract_stops: self.stops_data after the call. *)
extract_stops(ns, self_stops_data, tree_root) ==
    StopsLoop(ns, FindAll(tree_root, Desc(get_tag(ns, "AnnotatedStopPointRef"))),
              self_stops_data)

(* An insertion-ordered dict: a sequence of [key, value] entries. *)
OrderedSet(d, key, value) ==
    IF \E i \in 1..Len(d) : d[i].key = key
    THEN [i \in 1..Len(d) |->
             IF d[i].key = key THEN [key |-> key, value |-> value] ELSE d[i]]
    ELSE Append(d, [key |-> key, value |-> value])

Unknown == <<"u", "n", "k", "n", "o", "w", "n">>

OperatorRecordOf(ns, oper, op_id) ==
    [operator_id |-> op_id,
     national_code |-> safe_get_text(oper, Child(get_tag(ns, "NationalOperatorCode")), <<>>),
     operator_code |-> safe_get_text(oper, Child(get_tag(ns, "OperatorCode")), <<>>),
     operator_name |-> safe_get_text(oper, Child(get_tag(ns, "OperatorShortName")), <<>>),
     licence_number |-> safe_get_text(oper, Child(get_tag(ns, "LicenceNumber")), <<>>)]

RECURSIVE OperatorsLoop(_, _, _)
OperatorsLoop(ns, operators, info) ==
    IF operators = <<>> THEN info
    ELSE LET oper == Head(operators)
             op_id == Attr(oper, "id", Unknown)
         IN OperatorsLoop(ns, Tail(operators),
                          OrderedSet(info, op_id, OperatorRecordOf(ns, oper, op_id)))

(* extract_operators: self.operator_info after the call. *)
extract_operators(ns, self_operator_info, tree_root) ==
    OperatorsLoop(ns, FindAll(tree_root, Desc(get_tag(ns, "Operator"))),
                  self_operator_info)

(* extract_services: self.service_info after the call (the loop breaks after *)
(* the first Service).                                                        *)
extract_services(ns, self_service_info, tree_root) ==
    LET services == FindAll(tree_root, Desc(get_tag(ns, "Service"))) IN
    IF services = <<>> THEN self_service_info
    ELSE LET svc == Head(services) IN
         [service_code |-> safe_get_text(svc, Child(get_tag(ns, "ServiceCode")), <<>>),
          line_name |-> safe_get_text(svc, Desc(get_tag(ns, "LineName")), <<>>),
          origin |-> safe_get_text(svc, Desc(get_tag(ns, "Origin")), <<>>),
          destination |-> safe_get_text(svc, Desc(get_tag(ns, "Destination")), <<>>),
          outbound_desc |-> safe_get_text(svc,
              Desc(get_tag(ns, "OutboundDescription")) \o Child(get_tag(ns, "Description")), <<>>),
          inbound_desc |-> safe_get_text(svc,
              Desc(get_tag(ns, "InboundDescription")) \o Child(get_tag(ns, "Description")), <<>>),
          start_date |-> safe_get_text(svc, Desc(get_tag(ns, "StartDate")), <<>>),
          end_date |-> safe_get_text(svc, Desc(get_tag(ns, "EndDate")), <<>>),
          public_use |-> safe_get_text(svc, Child(get_tag(ns, "PublicUse")), <<>>)]

(* The segment extract_timing_links builds for one timing link. *)
SegmentFields(self, source_file, section_id, link, from_elem, to_elem) ==
    LET ns == self.namespace
        from_stop == IF from_elem # NoneElem
                     THEN safe_get_text(from_elem, Child(get_tag(ns, "StopPointRef")), <<>>)
                     ELSE <<>>
        to_stop == IF to_elem # NoneElem
                   THEN safe_get_text(to_elem, Child(get_tag(ns, "StopPointRef")), <<>>)
                   ELSE <<>>
        runtime_raw == safe_get_text(link, Child(get_tag(ns, "RunTime")), <<>>)
        from_stop_info == DictGet(self.stops_data, from_stop, EmptyDict)
        to_stop_info == DictGet(self.stops_data, to_stop, EmptyDict)
    IN [source_file |-> source_file,
        section_id |-> section_id,
        timing_link_id |-> Attr(link, "id", <<>>),
        from_stop_id |-> from_stop,
        from_stop_name |-> DictGet(from_stop_info, "stop_name", <<>>),
        from_latitude |-> DictGet(from_stop_info, "latitude", <<>>),
        from_longitude |-> DictGet(from_stop_info, "longitude", <<>>),
        from_sequence |-> IF from_elem # NoneElem
                          THEN Attr(from_elem, "SequenceNumber", <<>>) ELSE <<>>,
        from_timing_status |-> IF from_elem # NoneElem
            THEN safe_get_text(from_elem, Child(get_tag(ns, "TimingStatus")), <<>>)
            ELSE <<>>,
        from_activity |-> IF from_elem # NoneElem
            THEN safe_get_text(from_elem, Child(get_tag(ns, "Activity")), <<>>)
            ELSE <<>>,
        to_stop_id |-> to_stop,
        to_stop_name |-> DictGet(to_stop_info, "stop_name", <<>>),
        to_latitude |-> DictGet(to_stop_info, "latitude", <<>>),
        to_longitude |-> DictGet(to_stop_info, "longitude", <<>>),
        to_sequence |-> IF to_elem # NoneElem
                        THEN Attr(to_elem, "SequenceNumber", <<>>) ELSE <<>>,
        to_timing_status |-> IF to_elem # NoneElem
            THEN safe_get_text(to_elem, Child(get_tag(ns, "TimingStatus")), <<>>)
            ELSE <<>>,
        runtime_raw |-> runtime_raw,
        runtime_seconds |-> parse_duration(runtime_raw),
        route_link_ref |-> safe_get_text(link, Child(get_tag(ns, "RouteLinkRef")), <<>>),
        line_name |-> DictGet(self.service_info, "line_name", <<>>),
        operator_name |-> IF self.operator_info # <<>>
                          THEN self.operator_info[1].value.operator_name ELSE <<>>,
        service_origin |-> DictGet(self.service_info, "origin", <<>>),
        service_destination |-> DictGet(self.service_info, "destination", <<>>),
        service_code |-> DictGet(self.service_info, "service_code", <<>>)]

SegmentOf_without_missing(self, source_file, section_id, link) ==
    Bind(Find(link, Child(get_tag(self.namespace, "From"))), LAMBDA from_elem :
    Bind(Find(link, Child(get_tag(self.namespace, "To"))), LAMBDA to_elem :
    Bind(SegmentFields(self, source_file, section_id, link, from_elem, to_elem),
         LAMBDA segment :
            IF from_elem = NoneElem
            THEN [k \in DOMAIN segment \ {"from_stop_id", "from_sequence"} |-> segment[k]]
            ELSE segment)))

SegmentOf(self, source_file, section_id, link) ==
    Bind(Find(link, Child(get_tag(self.namespace, "From"))), LAMBDA from_elem :
    Bind(Find(link, Child(get_tag(self.namespace, "To"))), LAMBDA to_elem :
        SegmentFields(self, source_file, section_id, link, from_elem, to_elem)))

SectionSegments_reversed(self, source_file, section) ==
    Bind(FindAll(section, Child(get_tag(self.namespace, "JourneyPatternTimingLink"))),
         LAMBDA timing_links :
            [i \in 1..Len(timing_links) |->
                Bind(timing_links[Len(timing_links) + 1 - i], LAMBDA link :
                    SegmentOf(self, source_file, Attr(section, "id", <<>>), link))])

(* The inner loop of extract_timing_links over one section. *)
SectionSegments(self, source_file, section) ==
    Bind(FindAll(section, Child(get_tag(self.namespace, "JourneyPatternTimingLink"))),
         LAMBDA timing_links :
            [i \in 1..Len(timing_links) |->
                Bind(timing_links[i], LAMBDA link :
                    SegmentOf(self, source_file, Attr(section, "id", <<>>), link))])

RECURSIVE SectionsLoop(_, _, _)
SectionsLoop(self, source_file, jp_sections) ==
    IF jp_sections = <<>> THEN <<>>
    ELSE Bind(Head(jp_sections), LAMBDA section :
             SectionSegments(self, source_file, section))
         \o Bind(Tail(jp_sections), LAMBDA rest :
                SectionsLoop(self, source_file, rest))

(* extract_timing_links; self is the extractor's state at the call. *)
extract_timing_links(self, tree_root, source_file) ==
    Bind(FindAll(tree_root, Desc(get_tag(self.namespace, "JourneyPatternSection"))),
         LAMBDA jp_sections : SectionsLoop(self, source_file, jp_sections))

ResetIndexes_skipped(self) == self

(* The three assignments of process_single_file that empty the indexes. *)
ResetIndexes(self) ==
    [self EXCEPT !.stops_data = EmptyDict, !.operator_info = <<>>,
                 !.service_info = EmptyDict]

(* process_single_file on a document [name, wellformed, root]: the          *)
(* extractor's state after the call and the value returned.  ET.parse raises *)
(* on a malformed document before anything is assigned.                      *)
process_single_file(self, xml_path) ==
    IF ~xml_path.wellformed
    THEN [self |-> self,
          result |-> [filename |-> xml_path.name, stops_found |-> 0,
                      operators_found |-> 0, services_found |-> 0,
                      segments_found |-> 0, data |-> <<>>, status |-> "error"]]
    ELSE Bind(xml_path.root, LAMBDA root :
         Bind(find_namespace(self.namespace, root), LAMBDA ns :
         Bind(ResetIndexes(self), LAMBDA reset :
         Bind([namespace |-> ns,
               stops_data |-> extract_stops(ns, reset.stops_data, root),
               operator_info |-> extract_operators(ns, reset.operator_info, root),
               service_info |-> extract_services(ns, reset.service_info, root)],
              LAMBDA after :
         Bind(extract_timing_links(after, root, xml_path.name), LAMBDA file_segments :
            [self |-> after,
             result |-> [filename |-> xml_path.name,
                         stops_found |-> Cardinality(DOMAIN after.stops_data),
                         operators_found |-> Len(after.operator_info),
                         services_found |-> IF after.service_info # EmptyDict THEN 1 ELSE 0,
                         segments_found |-> Len(file_segments),
                         data |-> file_segments, status |-> "success"]])))))

---------------------------------------------------------------------------
(* XMLExtractor: the tag suffix scan strategy. *)

get_text(element, default) ==
    IF element # NoneElem /\ element.text # <<>> THEN Strip(element.text)
    ELSE default

RECURSIVE LocationLoop(_, _)
LocationLoop(loc_children, stop_data) ==
    IF loc_children = <<>> THEN stop_data
    ELSE LET loc_child == Head(loc_children)
             loc_tag == LocalName(loc_child)
         IN LocationLoop(Tail(loc_children),
                CASE loc_tag = "Latitude" ->
                        DictSet(stop_data, "latitude", get_text(loc_child, <<>>))
                  [] loc_tag = "Longitude" ->
                        DictSet(stop_data, "longitude", get_text(loc_child, <<>>))
                  [] OTHER -> stop_data)

(* The loop over the children of one stop element: [stop_id, stop_data]. *)
RECURSIVE StopChildLoop(_, _)
StopChildLoop(children, acc) ==
    IF children = <<>> THEN acc
    ELSE LET child == Head(children)
             child_tag == LocalName(child)
         IN StopChildLoop(Tail(children),
                CASE child_tag \in {"StopPointRef", "AtcoCode"} ->
                        [stop_id |-> get_text(child, <<>>),
                         stop_data |-> DictSet(acc.stop_data, "stop_id", get_text(child, <<>>))]
                  [] child_tag = "CommonName" ->
                        [acc EXCEPT !.stop_data =
                            DictSet(@, "stop_name", get_text(child, <<>>))]
                  [] child_tag = "LocalityName" ->
                        [acc EXCEPT !.stop_data =
                            DictSet(@, "locality", get_text(child, <<>>))]
                  [] child_tag = "Location" ->
                        [acc EXCEPT !.stop_data = LocationLoop(child.children, @)]
                  [] OTHER -> acc)

RECURSIVE XStopsLoop(_, _)
XStopsLoop(elems, stops) ==
    IF elems = <<>> THEN stops
    ELSE LET stop == Head(elems) IN
         IF LocalName(stop) \in {"StopPoint", "AnnotatedStopPointRef"}
         THEN LET acc == StopChildLoop(stop.children,
                                       [stop_id |-> <<>>, stop_data |-> EmptyDict])
              IN XStopsLoop(Tail(elems),
                            IF acc.stop_id # <<>>
                            THEN DictSet(stops, acc.stop_id, acc.stop_data)
                            ELSE stops)
         ELSE XStopsLoop(Tail(elems), stops)

(* XMLExtractor.extract_stops *)
X_extract_stops(root) == XStopsLoop(Iter(root), EmptyDict)

(* _extract_stop_point: the record after the loop over the children of a   *)
(* From / To element.                                                      *)
RECURSIVE extract_stop_point(_, _, _, _)
extract_stop_point(children, record, prefix, stops) ==
    IF children = <<>> THEN record
    ELSE LET child == Head(children)
             child_tag == LocalName(child)
             stop_id == get_text(child, <<>>)
             withId == DictSet(record, prefix.stop_id, stop_id)
         IN extract_stop_point(Tail(children),
                CASE child_tag = "StopPointRef" ->
                        IF stop_id \in DOMAIN stops
                        THEN DictSet(
                               DictSet(
                                 DictSet(withId, prefix.stop_name,
                                         DictGet(stops[stop_id], "stop_name", <<>>)),
                                 prefix.latitude,
                                 DictGet(stops[stop_id], "latitude", <<>>)),
                               prefix.longitude,
                               DictGet(stops[stop_id], "longitude", <<>>))
                        ELSE withId
                  [] child_tag = "SequenceNumber" ->
                        DictSet(record, prefix.sequence, get_text(child, <<>>))
                  [] child_tag = "TimingStatus" ->
                        DictSet(record, prefix.timing_status, get_text(child, <<>>))
                  [] child_tag = "Activity" ->
                        DictSet(record, prefix.activity, get_text(child, <<>>))
                  [] OTHER -> record,
                prefix, stops)

(* The keys f'{prefix}_...' for the two prefixes. *)
FromKeys ==
    [stop_id |-> "from_stop_id", stop_name |-> "from_stop_name",
     latitude |-> "from_latitude", longitude |-> "from_longitude",
     sequence |-> "from_sequence", timing_status |-> "from_timing_status",
     activity |-> "from_activity"]
ToKeys ==
    [stop_id |-> "to_stop_id", stop_name |-> "to_stop_name",
     latitude |-> "to_latitude", longitude |-> "to_longitude",
     sequence |-> "to_sequence", timing_status |-> "to_timing_status",
     activity |-> "to_activity"]

(* The loop over the children of one timing link. *)
RECURSIVE LinkChildLoop(_, _, _)
LinkChildLoop(children, record, stops) ==
    IF children = <<>> THEN record
    ELSE LET child == Head(children)
             child_tag == LocalName(child)
             runtime_raw == get_text(child, <<>>)
         IN LinkChildLoop(Tail(children),
                CASE child_tag = "From" ->
                        extract_stop_point(child.children, record, FromKeys, stops)
                  [] child_tag = "To" ->
                        extract_stop_point(child.children, record, ToKeys, stops)
                  [] child_tag = "RunTime" ->
                        DictSet(DictSet(record, "runtime_raw", runtime_raw),
                                "runtime_seconds", X_parse_duration(runtime_raw))
                  [] child_tag = "RouteLinkRef" ->
                        DictSet(record, "route_link_ref", get_text(child, <<>>))
                  [] OTHER -> record,
                stops)

(* The record built for one timing link, before the completeness filter. *)
LinkRecord(section, link, stops, filename) ==
    LinkChildLoop(link.children,
                  [source_file |-> filename,
                   section_id |-> Attr(section, "id", <<>>),
                   timing_link_id |-> Attr(link, "id", <<>>)],
                  stops)

(* if record.get('from_stop_id') or record.get('to_stop_id') *)
KeepRecord_both(record) ==
    /\ DictGet(record, "from_stop_id", <<>>) # <<>>
    /\ DictGet(record, "to_stop_id", <<>>) # <<>>

KeepRecord(record) ==
    \/ DictGet(record, "from_stop_id", <<>>) # <<>>
    \/ DictGet(record, "to_stop_id", <<>>) # <<>>

RECURSIVE XLinksLoop(_, _, _, _)
XLinksLoop(section, links, stops, filename) ==
    IF links = <<>> THEN <<>>
    ELSE LET link == Head(links)
             rest == XLinksLoop(section, Tail(links), stops, filename)
         IN IF LocalName(link) = "JourneyPatternTimingLink"
            THEN LET record == LinkRecord(section, link, stops, filename) IN
                 IF KeepRecord(record) THEN <<record>> \o rest ELSE rest
            ELSE rest

RECURSIVE XSectionsLoop(_, _, _)
XSectionsLoop(elems, stops, filename) ==
    IF elems = <<>> THEN <<>>
    ELSE LET section == Head(elems)
             rest == XSectionsLoop(Tail(elems), stops, filename)
         IN IF LocalName(section) = "JourneyPatternSection"
            THEN XLinksLoop(section, section.children, stops, filename) \o rest
            ELSE rest

(* XMLExtractor.extract_route_sections *)
extract_route_sections(root, stops, filename) ==
    XSectionsLoop(Iter(root), stops, filename)

RECURSIVE XServicesLoop(_, _)
XServicesLoop(elems, service_data) ==
    IF elems = <<>> THEN service_data
    ELSE LET elem == Head(elems)
             tag == LocalName(elem)
         IN XServicesLoop(Tail(elems),
                CASE tag = "LineName" ->
                        DictSet(service_data, "line_name", get_text(elem, <<>>))
                  [] tag = "ServiceCode" ->
                        DictSet(service_data, "service_code", get_text(elem, <<>>))
                  [] tag = "Origin" /\ "service_origin" \notin DOMAIN service_data ->
                        DictSet(service_data, "service_origin", get_text(elem, <<>>))
                  [] tag = "Destination" /\ "service_destination" \notin DOMAIN service_data ->
                        DictSet(service_data, "service_destination", get_text(elem, <<>>))
                  [] OTHER -> service_data)

(* XMLExtractor.extract_services *)
X_extract_services(root) == XServicesLoop(Iter(root), EmptyDict)

(* XMLExtractor.extract_operators *)
X_extract_operators(root) ==
    LET named == SelectSeq(Iter(root),
                     LAMBDA e : LocalName(e) \in {"OperatorShortName", "TradingName"})
    IN IF named = <<>> THEN EmptyDict
       ELSE [operator_name |-> get_text(Head(named), <<>>)]

(* record.update({...}) of process_file *)
Enrich(record, service_data, operator_data) ==
    [k \in DOMAIN record \cup {"line_name", "operator_name", "service_origin",
                               "service_destination", "service_code"} |->
        CASE k = "line_name" -> DictGet(service_data, "line_name", <<>>)
          [] k = "operator_name" -> DictGet(operator_data, "operator_name", <<>>)
          [] k = "service_origin" -> DictGet(service_data, "service_origin", <<>>)
          [] k = "service_destination" -> DictGet(service_data, "service_destination", <<>>)
          [] k = "service_code" -> DictGet(service_data, "service_code", <<>>)
          [] OTHER -> record[k]]

(* Python truth of a record value: runtime_seconds holds an int or None,   *)
(* every other field a str.                                                *)
Truthy(field, value) ==
    IF field = "runtime_seconds" THEN value # None /\ value # 0
    ELSE value # <<>>

(* process_file: the locals at its end; ET.parse raises on a malformed     *)
(* document and the handler returns 0.                                     *)
process_file(filepath) ==
    Bind(filepath.root, LAMBDA root :
    Bind(X_extract_stops(root), LAMBDA stops :
    Bind(X_extract_services(root), LAMBDA service_data :
    Bind(X_extract_operators(root), LAMBDA operator_data :
    Bind(extract_route_sections(root, stops, filepath.name), LAMBDA extracted :
        [stops |-> stops, service_data |-> service_data,
         operator_data |-> operator_data,
         records |-> [i \in 1..Len(extracted) |->
                         Enrich(extracted[i], service_data, operator_data)]])))))

---------------------------------------------------------------------------
(* Calls of parse_duration on bounded inputs. *)

DurAlphabet == {"P", "T", "H", "M", "S", "0", "1", "3", "x"}

DigitChar(d) ==
    CASE d = 0 -> "0" [] d = 1 -> "1" [] d = 2 -> "2" [] d = 3 -> "3"
      [] d = 4 -> "4" [] d = 5 -> "5" [] d = 6 -> "6" [] d = 7 -> "7"
      [] d = 8 -> "8" [] d = 9 -> "9"

(* The decimal numeral of n >= 0. *)
RECURSIVE Decimal(_)
Decimal(n) ==
    IF n < 10 THEN <<DigitChar(n)>> ELSE Decimal(n \div 10) \o <<DigitChar(n % 10)>>

(* A component of a duration text: absent, or a number. *)
Absent == -1
Components == {Absent} \cup 0..MaxValue

(* <lead><n><letter>, or nothing for an absent component. *)
Component(n, lead, letter) ==
    IF n = Absent THEN <<>> ELSE lead \o Decimal(n) \o <<letter>>

(* The text PT<h>H<m>M<s>S with the absent components left out, followed   *)
(* by junk.                                                                 *)
FormatDuration(p) ==
    <<"P", "T">> \o Component(p.h, p.lead, "H") \o Component(p.m, p.lead, "M")
                 \o Component(p.s, p.lead, "S") \o p.junk

Unformed ==
    [formed |-> FALSE, h |-> Absent, m |-> Absent, s |-> Absent,
     lead |-> <<>>, junk |-> <<>>]

(* What follows a duration in a text that is not one as a whole. *)
Junk == {<<>>, <<"x">>, <<"1", "H">>, <<" ">>}

DurInit ==
    /\ variant = "none" /\ xml_files = <<>> /\ pc = "idle" /\ idx = 0
    /\ namespace = "" /\ stops_data = EmptyDict /\ operator_info = <<>>
    /\ service_info = EmptyDict /\ timing_segments = <<>> /\ all_segments = <<>>
    /\ summary_stats = EmptyDict /\ results = <<>> /\ quality_metrics = EmptyDict
    /\ all_records = <<>> /\ all_fields = {} /\ field_counts = EmptyDict
    /\ files_processed = 0 /\ locals = EmptyDict
    /\ all_stops = <<>> /\ stops_count = 0
    /\ dur_pc = "input"
    /\ dur_result = None
    /\ \/ \E h \in Components, m \in Components, s \in Components,
             lead \in {<<>>, <<"0">>}, junk \in Junk :
             /\ dur_parts = [formed |-> TRUE, h |-> h, m |-> m, s |-> s,
                             lead |-> lead, junk |-> junk]
             /\ duration_str = FormatDuration(dur_parts)
       \/ /\ dur_parts = Unformed
          /\ duration_str \in Strings(DurAlphabet, 0, MaxLen) \cup {NoneStr}

CallParseDuration ==
    /\ dur_pc = "input"
    /\ dur_pc' = "bus"
    /\ dur_result' = parse_duration(duration_str)
    /\ UNCHANGED <<duration_str, dur_parts>>
    /\ UNCHANGED <<batchVars, busVars, xVars>>

CallXParseDuration ==
    /\ dur_pc = "input"
    /\ dur_pc' = "xml"
    /\ dur_result' = X_parse_duration(duration_str)
    /\ UNCHANGED <<duration_str, dur_parts>>
    /\ UNCHANGED <<batchVars, busVars, xVars>>

DurNext == CallParseDuration \/ CallXParseDuration

DurSpec == DurInit /\ [][DurNext]_vars

---------------------------------------------------------------------------
(* calculate_data_quality *)

key_fields ==
    {"from_stop_id", "to_stop_id", "from_stop_name", "to_stop_name",
     "from_latitude", "from_longitude", "to_latitude", "to_longitude",
     "runtime_seconds", "line_name"}

(* round(n / d, 0) as Python rounds: to nearest, ties to even. *)
RoundHalfEven(n, d) ==
    LET q == n \div d
        r == n % d
    IN IF 2 * r < d THEN q
       ELSE IF 2 * r > d THEN q + 1
       ELSE IF q % 2 = 0 THEN q ELSE q + 1

(* sum(1 for seg in segments if seg.get(field)) *)
Populated(segments, field) ==
    Cardinality({i \in 1..Len(segments) :
                    Truthy(field, DictGet(segments[i], field, <<>>))})

(* round((populated / total) * 100, 2), held in hundredths of a percent:   *)
(* 70.0 is 7000.                                                           *)
Completeness(populated, total_records) ==
    IF total_records > 0 THEN RoundHalfEven(populated * 10000, total_records) ELSE 0

calculate_data_quality(self_timing_segments) ==
    IF self_timing_segments = <<>> THEN EmptyDict
    ELSE [field \in key_fields |->
             Bind(Populated(self_timing_segments, field), LAMBDA populated :
                 [populated |-> populated,
                  completeness |-> Completeness(populated, Len(self_timing_segments))])]

---------------------------------------------------------------------------
(* The input documents. *)

Leaf(ns, tag, text) == E(ns, tag, EmptyDict, text, <<>>)
Node(ns, tag, attrs, children) == E(ns, tag, attrs, <<>>, children)

S1 == <<"S", "1">>
S2 == <<"S", "2">>
S3 == <<"S", "3">>
S9 == <<"S", "9">>
S4 == <<"S", "4">>

StopRef(ns, text) == Leaf(ns, "StopPointRef", text)

AnnotatedStop(ns, id_text, name, location) ==
    Node(ns, "AnnotatedStopPointRef", EmptyDict,
         <<StopRef(ns, id_text), Leaf(ns, "CommonName", name)>> \o location)

Location(ns, lat, lon) ==
    <<Node(ns, "Location", EmptyDict,
           <<Leaf(ns, "Longitude", lon), Leaf(ns, "Latitude", lat)>>)>>

ServiceElem(ns, code, line, origin, destination) ==
    Node(ns, "Service", EmptyDict,
         <<Leaf(ns, "ServiceCode", code),
           Node(ns, "Lines", EmptyDict,
                <<Node(ns, "Line", EmptyDict, <<Leaf(ns, "LineName", line)>>)>>),
           Node(ns, "StandardService", EmptyDict,
                <<Leaf(ns, "Origin", origin), Leaf(ns, "Destination", destination)>>)>>)

OperatorElem(ns, attrs, short_name) ==
    Node(ns, "Operator", attrs, <<Leaf(ns, "OperatorShortName", short_name)>>)

(* The reference data of a document: stops, operators, services.  Kind C   *)
(* has stops with two ID children, two operators without id and two        *)
(* services.                                                               *)
RefData(ns, kind) ==
    CASE kind = "A" ->
           <<Node(ns, "StopPoints", EmptyDict,
                <<AnnotatedStop(ns, S1, <<"A">>, Location(ns, <<"5", "1">>, <<"-", "1">>)),
                  AnnotatedStop(ns, <<" ", "S", "2", " ">>, <<"B">>,
                                Location(ns, <<"5", "2">>, <<"-", "2">>))>>),
             Node(ns, "Operators", EmptyDict,
                <<Node(ns, "Operator", [id |-> <<"O", "1">>],
                       <<Leaf(ns, "OperatorShortName", <<"O", "p">>)>>)>>),
             Node(ns, "Services", EmptyDict,
                <<Node(ns, "Service", EmptyDict,
                       <<Leaf(ns, "ServiceCode", <<"S", "C">>),
                         Node(ns, "Lines", EmptyDict,
                              <<Node(ns, "Line", EmptyDict,
                                     <<Leaf(ns, "LineName", <<"1", "4">>)>>)>>),
                         Node(ns, "StandardService", EmptyDict,
                              <<Leaf(ns, "Origin", <<"X">>),
                                Leaf(ns, "Destination", <<"Y">>)>>)>>)>>)>>
      [] kind = "B" ->
           <<Node(ns, "StopPoints", EmptyDict,
                <<AnnotatedStop(ns, S3, <<"C">>, <<>>)>>)>>
      [] kind = "C" ->
           <<Node(ns, "StopPoints", EmptyDict,
                <<Node(ns, "AnnotatedStopPointRef", EmptyDict,
                       <<StopRef(ns, S1), Leaf(ns, "CommonName", <<"A">>),
                         Leaf(ns, "AtcoCode", S4)>>),
                  Node(ns, "AnnotatedStopPointRef", EmptyDict,
                       <<StopRef(ns, S2), Leaf(ns, "AtcoCode", <<>>),
                         Leaf(ns, "CommonName", <<"B">>)>>)>>),
             Node(ns, "Operators", EmptyDict,
                <<OperatorElem(ns, EmptyDict, <<"O", "p">>),
                  OperatorElem(ns, EmptyDict, <<"O", "q">>)>>),
             Node(ns, "Services", EmptyDict,
                <<ServiceElem(ns, <<"S", "C">>, <<"1", "4">>, <<"X">>, <<"Y">>),
                  ServiceElem(ns, <<"S", "D">>, <<"1", "5">>, <<"Z">>, <<"W">>)>>)>>
      [] OTHER -> <<>>

TimingLink(ns, id, children) ==
    Node(ns, "JourneyPatternTimingLink", [id |-> id], children)

Section(ns, id, children) ==
    Node(ns, "JourneyPatternSection", [id |-> id], children)

(* The journey pattern sections of a document. *)
Sections(ns, kind) ==
    CASE kind = "A" ->
           <<Node(ns, "JourneyPatternSections", EmptyDict,
               <<Section(ns, <<"J", "1">>,
                   <<TimingLink(ns, <<"L", "1">>,
                       <<Node(ns, "From", [SequenceNumber |-> <<"1">>],
                              <<StopRef(ns, S1),
                                Leaf(ns, "TimingStatus", <<"P", "T", "P">>),
                                Leaf(ns, "Activity", <<"u", "p">>)>>),
                         Node(ns, "To", [SequenceNumber |-> <<"2">>],
                              <<StopRef(ns, S2),
                                Leaf(ns, "TimingStatus", <<"O", "T", "H">>)>>),
                         Leaf(ns, "RunTime", <<"P", "T", "1", "M", "3", "0", "S">>),
                         Leaf(ns, "RouteLinkRef", <<"R", "1">>)>>),
                     Section(ns, <<"J", "2">>,
                       <<TimingLink(ns, <<"L", "2">>,
                           <<Node(ns, "From", EmptyDict, <<StopRef(ns, S2)>>),
                             Node(ns, "To", EmptyDict, <<StopRef(ns, S9)>>),
                             Leaf(ns, "RunTime", <<"P", "T", "0", "S">>)>>)>>),
                     TimingLink(ns, <<"L", "3">>,
                       <<Node(ns, "From", EmptyDict, <<StopRef(ns, S1)>>),
                         Leaf(ns, "RunTime", <<"P", "T", "5", "x">>)>>)>>),
                 Section(ns, <<"J", "3">>, <<>>)>>)>>
      [] kind = "B" ->
           <<Node(ns, "JourneyPatternSections", EmptyDict,
               <<Section(ns, <<"J", "4">>,
                   <<TimingLink(ns, <<"L", "4">>, <<>>),
                     TimingLink(ns, <<"L", "5">>,
                       <<Node(ns, "To", EmptyDict, <<StopRef(ns, <<" ">>)>>)>>),
                     TimingLink(ns, <<"L", "6">>,
                       <<Node(ns, "To", EmptyDict, <<StopRef(ns, S3)>>),
                         Leaf(ns, "RunTime", <<"P", "T", "1", "M", "x">>)>>)>>)>>)>>
      [] OTHER -> <<>>

Namespaces == {"", "http://ns"}

Document(wellformed, ns, ref_kind, section_kind) ==
    [wellformed |-> wellformed,
     root |-> Node(ns, "TransXChange", EmptyDict,
                   RefData(ns, ref_kind) \o Sections(ns, section_kind))]

(* The contents a file of the folder may have: well-formed documents and   *)
(* one truncated document, which ET.parse rejects.                         *)
Contents ==
    {Document(TRUE, ns, k[1], k[2]) :
        ns \in Namespaces, k \in {<<"A", "A">>, <<"B", "B">>, <<"none", "A">>, <<"C", "A">>}}
    \cup {Document(FALSE, "", "A", "A")}

(* xml_path.name of the i-th file of the listing. *)
FileName(i) == <<"f", ToString(i)>>

Folders ==
    UNION {{[i \in 1..n |-> [name |-> FileName(i), wellformed |-> c[i].wellformed,
                             root |-> c[i].root]] : c \in [1..n -> Contents]}
           : n \in 0..MaxFiles}

---------------------------------------------------------------------------
(* The batch run of either extractor. *)

Init ==
    /\ variant \in {"bus", "xml"}
    /\ xml_files \in Folders
    /\ pc = "init"
    /\ idx = 0
    /\ namespace = ""
    /\ stops_data = EmptyDict
    /\ operator_info = <<>>
    /\ service_info = EmptyDict
    /\ timing_segments = <<>>
    /\ all_segments = <<>>
    /\ summary_stats = EmptyDict
    /\ results = <<>>
    /\ quality_metrics = EmptyDict
    /\ all_stops = <<>>
    /\ stops_count = 0
    /\ all_records = <<>>
    /\ all_fields = {}
    /\ field_counts = EmptyDict
    /\ files_processed = 0
    /\ locals = EmptyDict
    /\ duration_str = <<>>
    /\ dur_parts = Unformed
    /\ dur_result = None
    /\ dur_pc = "idle"

BusSelf ==
    [namespace |-> namespace, stops_data |-> stops_data,
     operator_info |-> operator_info, service_info |-> service_info]

(* process_all_files up to the loop: the listing and the empty-folder return. *)
ProcessAllFilesStart ==
    /\ variant = "bus" /\ pc = "init"
    /\ IF xml_files = <<>>
       THEN /\ pc' = "empty"
            /\ UNCHANGED <<all_segments, summary_stats>>
       ELSE /\ pc' = "loop"
            /\ all_segments' = <<>>
            /\ summary_stats' = [total_files |-> Len(xml_files), successful |-> 0,
                                 failed |-> 0, total_segments |-> 0, total_stops |-> 0]
    /\ UNCHANGED <<variant, xml_files, idx, namespace, stops_data, operator_info,
                   service_info, timing_segments, results, quality_metrics>>
    /\ UNCHANGED <<all_stops, stops_count>>
    /\ UNCHANGED <<xVars, durVars>>

(* The body of the loop of process_all_files after the call: the counters  *)
(* and the aggregate list.                                                  *)
Tally_stops_of_last(stats, result) ==
    IF result.status = "success"
    THEN [stats EXCEPT !.successful = @ + 1,
                       !.total_segments = @ + result.segments_found,
                       !.total_stops = result.stops_found]
    ELSE [stats EXCEPT !.failed = @ + 1]

Tally(stats, result) ==
    IF result.status = "success"
    THEN [stats EXCEPT !.successful = @ + 1,
                       !.total_segments = @ + result.segments_found,
                       !.total_stops = @ + result.stops_found]
    ELSE [stats EXCEPT !.failed = @ + 1]

Extend_prepend(segments, result) ==
    IF result.status = "success" THEN result.data \o segments ELSE segments

Extend(segments, result) ==
    IF result.status = "success" THEN segments \o result.data ELSE segments

(* One iteration of the loop of process_all_files. *)
ProcessAllFilesIter ==
    /\ variant = "bus" /\ pc = "loop" /\ idx < Len(xml_files)
    /\ \E call \in {process_single_file(BusSelf, xml_files[idx + 1])} :
          LET result == call.result IN
          /\ namespace' = call.self.namespace
          /\ stops_data' = call.self.stops_data
          /\ operator_info' = call.self.operator_info
          /\ service_info' = call.self.service_info
          /\ results' = Append(results, result)
          /\ summary_stats' = Tally(summary_stats, result)
          /\ all_segments' = Extend(all_segments, result)
    /\ idx' = idx + 1
    /\ UNCHANGED <<variant, xml_files, pc, timing_segments, quality_metrics>>
    /\ UNCHANGED <<all_stops, stops_count>>
    /\ UNCHANGED <<xVars, durVars>>

(* The end of process_all_files. *)
ProcessAllFilesFinish ==
    /\ variant = "bus" /\ pc = "loop" /\ idx = Len(xml_files)
    /\ timing_segments' = all_segments
    /\ pc' = "done"
    /\ UNCHANGED <<variant, xml_files, idx, namespace, stops_data, operator_info,
                   service_info, all_segments, summary_stats, results, quality_metrics>>
    /\ UNCHANGED <<all_stops, stops_count>>
    /\ UNCHANGED <<xVars, durVars>>

CalculateDataQuality ==
    /\ variant = "bus" /\ pc = "done"
    /\ quality_metrics' = calculate_data_quality(timing_segments)
    /\ pc' = "quality"
    /\ UNCHANGED <<variant, xml_files, idx, namespace, stops_data, operator_info,
                   service_info, timing_segments, all_segments, summary_stats, results>>
    /\ UNCHANGED <<all_stops, stops_count>>
    /\ UNCHANGED <<xVars, durVars>>

(* run up to the loop: the listing and the empty-folder return. *)
RunStart ==
    /\ variant = "xml" /\ pc = "init"
    /\ pc' = IF xml_files = <<>> THEN "empty" ELSE "loop"
    /\ UNCHANGED <<variant, xml_files, idx>>
    /\ UNCHANGED <<busVars, xVars, durVars>>

(* The keys the counting loop of process_file increments, with the number  *)
(* of records that hold a true value under each.                           *)
CountedKeys(records) ==
    {k \in UNION {DOMAIN records[i] : i \in 1..Len(records)} :
        \E i \in 1..Len(records) : k \in DOMAIN records[i] /\ Truthy(k, records[i][k])}

TruthyCount(records, k) ==
    Cardinality({i \in 1..Len(records) :
                    k \in DOMAIN records[i] /\ Truthy(k, records[i][k])})

(* A call of process_file: what it leaves in the extractor.  A file that  *)
(* does not parse leaves everything as it was.                             *)
CallProcessFile(filepath) ==
    IF filepath.wellformed
    THEN \E end \in {process_file(filepath)} :
         LET records == end.records IN
            /\ locals' = end
            /\ all_fields' = all_fields \cup
                   UNION {DOMAIN records[i] : i \in 1..Len(records)}
            /\ field_counts' =
                   [k \in DOMAIN field_counts \cup CountedKeys(records) |->
                       DictGet(field_counts, k, 0) + TruthyCount(records, k)]
            /\ all_records' = all_records \o records
            /\ files_processed' = files_processed + 1
    ELSE UNCHANGED xVars

(* One iteration of the loop of run: process_file. *)
RunIter ==
    /\ variant = "xml" /\ pc = "loop" /\ idx < Len(xml_files)
    /\ CallProcessFile(xml_files[idx + 1])
    /\ idx' = idx + 1
    /\ UNCHANGED <<variant, xml_files, pc>>
    /\ UNCHANGED <<busVars, durVars>>

(* run after the loop, up to the test of all_records. *)
RunFinish ==
    /\ variant = "xml" /\ pc = "loop" /\ idx = Len(xml_files)
    /\ pc' = IF all_records = <<>> THEN "norecords" ELSE "done"
    /\ UNCHANGED <<variant, xml_files, idx>>
    /\ UNCHANGED <<busVars, xVars, durVars>>

AddStop_last_wins(stops, stop_id, stop_name, latitude, longitude) ==
    IF stop_id = <<>> THEN stops
    ELSE SelectSeq(stops, LAMBDA row : row.stop_id # stop_id)
            \o <<[stop_id |-> stop_id, stop_name |-> stop_name,
                  latitude |-> latitude, longitude |-> longitude]>>

(* save_to_csv: the header, the keys of the first segment. *)
fieldnames(self_timing_segments) == DOMAIN self_timing_segments[1]

(* One pass of the loop of create_stops_csv for one role of a segment:    *)
(* a stop ID that is not empty and not yet a key gets its row.             *)
AddStop(stops, stop_id, stop_name, latitude, longitude) ==
    IF stop_id # <<>> /\ \A i \in 1..Len(stops) : stops[i].stop_id # stop_id
    THEN Append(stops, [stop_id |-> stop_id, stop_name |-> stop_name,
                        latitude |-> latitude, longitude |-> longitude])
    ELSE stops

RECURSIVE AllStopsLoop(_, _)
AllStopsLoop(segments, stops) ==
    IF segments = <<>> THEN stops
    ELSE Bind(Head(segments), LAMBDA seg :
         Bind(AddStop(stops, seg.from_stop_id, seg.from_stop_name,
                      seg.from_latitude, seg.from_longitude), LAMBDA with_from :
         Bind(AddStop(with_from, seg.to_stop_id, seg.to_stop_name,
                      seg.to_latitude, seg.to_longitude), LAMBDA with_to :
              AllStopsLoop(Tail(segments), with_to))))

(* create_stops_csv: the rows it writes and the count it returns. *)
create_stops_csv(self_timing_segments) ==
    Bind(AllStopsLoop(self_timing_segments, <<>>), LAMBDA stops :
        [all_stops |-> stops,
         returned |-> IF stops # <<>> THEN Len(stops) ELSE 0])

CreateStopsCsv ==
    /\ variant = "bus" /\ pc = "done"
    /\ \E call \in {create_stops_csv(timing_segments)} :
          /\ all_stops' = call.all_stops
          /\ stops_count' = call.returned
    /\ pc' = "stops"
    /\ UNCHANGED <<variant, xml_files, idx, namespace, stops_data, operator_info,
                   service_info, timing_segments, all_segments, summary_stats, results,
                   quality_metrics>>
    /\ UNCHANGED <<xVars, durVars>>

(* The value process_all_files returns: [] for a folder without XML files, *)
(* else summary_stats.                                                     *)
process_all_files_return ==
    IF pc = "empty" THEN [type |-> "list", value |-> <<>>]
    ELSE [type |-> "dict", value |-> summary_stats]

(* The value run returns: None for a folder without XML files, None when   *)
(* no record was extracted, else the DataFrame of all_records.             *)
run_return ==
    IF pc = "empty" THEN [type |-> "NoneType", value |-> <<>>]
    ELSE IF pc = "norecords" THEN [type |-> "NoneType", value |-> <<>>]
    ELSE [type |-> "DataFrame", value |-> all_records]

(* The caller processes a file of the folder once more with the same      *)
(* extractor: process_single_file(xml_files[i]).  idx is then the file     *)
(* processed again and the last of results the value of this call.         *)
ProcessSingleFileAgain ==
    /\ variant = "bus" /\ pc = "done"
    /\ \E i \in 1..Len(xml_files) :
          /\ \E call \in {process_single_file(BusSelf, xml_files[i])} :
                /\ namespace' = call.self.namespace
                /\ stops_data' = call.self.stops_data
                /\ operator_info' = call.self.operator_info
                /\ service_info' = call.self.service_info
                /\ results' = Append(results, call.result)
          /\ idx' = i
    /\ pc' = "again"
    /\ UNCHANGED <<variant, xml_files, timing_segments, all_segments, summary_stats,
                   quality_metrics>>
    /\ UNCHANGED <<all_stops, stops_count>>
    /\ UNCHANGED <<xVars, durVars>>

(* The same for XMLExtractor: process_file(xml_files[i]) once more. *)
ProcessFileAgain ==
    /\ variant = "xml" /\ pc \in {"done", "norecords"}
    /\ \E i \in 1..Len(xml_files) :
          /\ CallProcessFile(xml_files[i])
          /\ idx' = i
    /\ pc' = "again"
    /\ UNCHANGED <<variant, xml_files>>
    /\ UNCHANGED <<busVars, durVars>>

Next ==
    \/ CreateStopsCsv
    \/ ProcessSingleFileAgain
    \/ ProcessFileAgain
    \/ ProcessAllFilesStart
    \/ ProcessAllFilesIter
    \/ ProcessAllFilesFinish
    \/ CalculateDataQuality
    \/ RunStart
    \/ RunIter
    \/ RunFinish

Spec == Init /\ [][Next]_vars

---------------------------------------------------------------------------
(* Vocabulary of the properties. *)

(* The document the last iteration of the batch loop handled. *)
LastFile == xml_files[idx]

BusHandled == variant = "bus" /\ idx >= 1
XmlHandled == variant = "xml" /\ idx >= 1

WellFormedFiles == {i \in 1..Len(xml_files) : xml_files[i].wellformed}

RECURSIVE Flatten(_)
Flatten(seqs) == IF seqs = <<>> THEN <<>> ELSE Head(seqs) \o Flatten(Tail(seqs))

Elements(root) == LET it == Iter(root) IN {it[i] : i \in 1..Len(it)}

(* The stripped texts of the elements of a document with one of the tags. *)
TextsOf(root, tags) == {Strip(e.text) : e \in {x \in Elements(root) : x.tag \in tags}}

(* The stop IDs a document defines: the ID children of its stop elements. *)
DefinedStopIds(root) ==
    UNION {{Strip(e.children[i].text) :
              i \in {j \in 1..Len(e.children) :
                        e.children[j].tag \in {"StopPointRef", "AtcoCode"}}}
           : e \in {x \in Elements(root) :
                       x.tag \in {"AnnotatedStopPointRef", "StopPoint"}}}

OperatorIds(root) ==
    {Attr(e, "id", Unknown) : e \in {x \in Elements(root) : x.tag = "Operator"}}

Blank == {<<>>}

---------------------------------------------------------------------------
(* C1: whenever BusDataExtractor has processed a well-formed document, the *)
(* namespace its tag lookups use is the one of that document's own root    *)
(* tag: the URI of a qualified root, none for an unqualified root - also   *)
(* for an unqualified document processed after a qualified one.            *)
C1_NamespaceOfOwnDocument ==
    (BusHandled /\ LastFile.wellformed) => namespace = LastFile.root.ns

---------------------------------------------------------------------------
(* C2: when process_all_files has ended, every document was processed, the *)
(* malformed ones count as failed and the well-formed ones as successful,  *)
(* and timing_segments is the concatenation, in processing order, of the   *)
(* segment lists of the well-formed documents, with no segment of a failed *)
(* document.                                                               *)
C2_BatchIsolation ==
    (variant = "bus" /\ pc \in {"done", "quality"}) =>
        /\ Len(results) = Len(xml_files)
        /\ \A i \in 1..Len(xml_files) :
              /\ results[i].filename = xml_files[i].name
              /\ (results[i].status = "success") <=> xml_files[i].wellformed
        /\ summary_stats.total_files = Len(xml_files)
        /\ summary_stats.successful = Cardinality(WellFormedFiles)
        /\ summary_stats.failed = Len(xml_files) - Cardinality(WellFormedFiles)
        /\ timing_segments =
              Flatten([i \in 1..Len(xml_files) |->
                          IF xml_files[i].wellformed THEN results[i].data ELSE <<>>])
        /\ \A k \in 1..Len(timing_segments) :
              \E i \in WellFormedFiles :
                 timing_segments[k].source_file = xml_files[i].name

(* Three documents, the second malformed, the other two with segments. *)
C2_Witness ==
    /\ variant = "bus" /\ pc = "done" /\ Len(xml_files) = 3
    /\ WellFormedFiles = {1, 3}
    /\ results[1].data # <<>> /\ results[3].data # <<>>
    /\ summary_stats.successful = 2 /\ summary_stats.failed = 1
    /\ Len(timing_segments) = Len(results[1].data) + Len(results[3].data)

---------------------------------------------------------------------------
(* C3: the stop, operator and service indexes in use for a document hold   *)
(* only entries built from that document: every stop ID is one the         *)
(* document defines, every operator one of its Operator elements, the      *)
(* service record one of its services - also when the document defines     *)
(* none, and in both extractors.                                           *)
C3_BusIndexesOwn ==
    (BusHandled /\ LastFile.wellformed) =>
        LET root == LastFile.root IN
        /\ DOMAIN stops_data \subseteq DefinedStopIds(root)
        /\ \A k \in DOMAIN stops_data :
              /\ stops_data[k].stop_name \in TextsOf(root, {"CommonName"}) \cup Blank
              /\ stops_data[k].latitude \in TextsOf(root, {"Latitude"}) \cup Blank
              /\ stops_data[k].longitude \in TextsOf(root, {"Longitude"}) \cup Blank
        /\ \A i \in 1..Len(operator_info) :
              /\ operator_info[i].key \in OperatorIds(root)
              /\ operator_info[i].value.operator_name
                    \in TextsOf(root, {"OperatorShortName"}) \cup Blank
        /\ service_info # EmptyDict =>
              /\ \E e \in Elements(root) : e.tag = "Service"
              /\ service_info.line_name \in TextsOf(root, {"LineName"}) \cup Blank
              /\ service_info.service_code \in TextsOf(root, {"ServiceCode"}) \cup Blank
              /\ service_info.origin \in TextsOf(root, {"Origin"}) \cup Blank
              /\ service_info.destination \in TextsOf(root, {"Destination"}) \cup Blank

C3_XmlIndexesOwn ==
    (XmlHandled /\ LastFile.wellformed) =>
        LET root == LastFile.root IN
        /\ DOMAIN locals.stops \subseteq DefinedStopIds(root)
        /\ \A k \in DOMAIN locals.stops :
              /\ DictGet(locals.stops[k], "stop_name", <<>>)
                    \in TextsOf(root, {"CommonName"}) \cup Blank
              /\ DictGet(locals.stops[k], "latitude", <<>>)
                    \in TextsOf(root, {"Latitude"}) \cup Blank
        /\ DictGet(locals.service_data, "line_name", <<>>)
              \in TextsOf(root, {"LineName"}) \cup Blank
        /\ DictGet(locals.service_data, "service_code", <<>>)
              \in TextsOf(root, {"ServiceCode"}) \cup Blank
        /\ DictGet(locals.operator_data, "operator_name", <<>>)
              \in TextsOf(root, {"OperatorShortName", "TradingName"}) \cup Blank

C3_IndexesOwn == C3_BusIndexesOwn /\ C3_XmlIndexesOwn

(* A document with stops, operator and service, indexed; then a document   *)
(* that defines none and has segments: its indexes are empty.              *)
C3_Witness ==
    /\ BusHandled /\ idx = 2
    /\ results[1].stops_found > 0 /\ results[1].operators_found > 0
    /\ results[1].services_found > 0
    /\ LastFile.wellformed /\ DefinedStopIds(LastFile.root) = {}
    /\ results[2].segments_found > 0
    /\ DOMAIN stops_data = {} /\ operator_info = <<>> /\ service_info = EmptyDict

---------------------------------------------------------------------------
(* The segments the last iteration emitted and the stop index it used. *)
LastSegments == IF variant = "bus" THEN results[idx].data ELSE locals.records
LastStops == IF variant = "bus" THEN stops_data ELSE locals.stops
LastHandled == (BusHandled \/ XmlHandled) /\ LastFile.wellformed

(* C4: for every emitted segment and each role (from, to): when the        *)
(* role's stop ID is a key of the document's stop index, the role's name,  *)
(* latitude and longitude are those of that stop record; when it is not,   *)
(* the three fields are on the record as empty strings.  Both extractors.  *)
C4_RoleJoined(seg, index, k) ==
    k.stop_id \in DOMAIN seg =>
        /\ {k.stop_name, k.latitude, k.longitude} \subseteq DOMAIN seg
        /\ IF seg[k.stop_id] \in DOMAIN index
           THEN /\ seg[k.stop_name] = DictGet(index[seg[k.stop_id]], "stop_name", <<>>)
                /\ seg[k.latitude] = DictGet(index[seg[k.stop_id]], "latitude", <<>>)
                /\ seg[k.longitude] = DictGet(index[seg[k.stop_id]], "longitude", <<>>)
           ELSE /\ seg[k.stop_name] = <<>>
                /\ seg[k.latitude] = <<>>
                /\ seg[k.longitude] = <<>>

C4_JoinCorrect ==
    LastHandled =>
        \A i \in 1..Len(LastSegments) :
            /\ C4_RoleJoined(LastSegments[i], LastStops, FromKeys)
            /\ C4_RoleJoined(LastSegments[i], LastStops, ToKeys)

---------------------------------------------------------------------------
(* Positions in a document.  The timing links of the input documents carry *)
(* distinct id attributes, so an emitted segment names its link.           *)
IsLink(e) == e.tag = "JourneyPatternTimingLink"

(* The place of the link in document order. *)
DocPos(root, id) ==
    LET it == Iter(root) IN
    CHOOSE p \in 1..Len(it) : IsLink(it[p]) /\ Attr(it[p], "id", <<>>) = id

(* Where a link is: the place in document order of the element it is a    *)
(* child of, that element, and the link's place among its children.  it is *)
(* the document in document order.                                         *)
LinkPlace(it, id) ==
    LET p == CHOOSE q \in 1..Len(it) :
                \E c \in 1..Len(it[q].children) :
                    IsLink(it[q].children[c]) /\ Attr(it[q].children[c], "id", <<>>) = id
        parent == it[p]
    IN [section |-> p,
        parent |-> parent,
        child |-> CHOOSE c \in 1..Len(parent.children) :
                     IsLink(parent.children[c]) /\ Attr(parent.children[c], "id", <<>>) = id]

(* The places of the links of the segments, in output order. *)
LinkPlaces(root, segs) ==
    LET it == Iter(root) IN
    [i \in 1..Len(segs) |-> LinkPlace(it, segs[i].timing_link_id)] \o <<>>

(* No segment is duplicated, and each is emitted under its parent section. *)
C5_UnderOwnSection(places, segs) ==
    /\ \A i, j \in 1..Len(segs) :
          i # j => segs[i].timing_link_id # segs[j].timing_link_id
    /\ \A i \in 1..Len(segs) :
          /\ places[i].parent.tag = "JourneyPatternSection"
          /\ segs[i].section_id = Attr(places[i].parent, "id", <<>>)

(* C5 as stated: within one document, segment a precedes segment b in the  *)
(* output iff a's timing link precedes b's in document order, and no       *)
(* segment is duplicated or emitted under a section other than its parent. *)
C5_DocumentOrder ==
    LastHandled =>
        /\ C5_UnderOwnSection(LinkPlaces(LastFile.root, LastSegments), LastSegments)
        /\ \A i, j \in 1..Len(LastSegments) :
              i < j <=> DocPos(LastFile.root, LastSegments[i].timing_link_id)
                          < DocPos(LastFile.root, LastSegments[j].timing_link_id)

(* C5 amended: segment a precedes segment b in the output iff a's section  *)
(* precedes b's section in document order, or they are links of the same   *)
(* section and a's link precedes b's among the children of that section;   *)
(* no segment is duplicated or emitted under a section other than its      *)
(* parent.                                                                 *)
C5_SectionThenLinkOrder ==
    LastHandled =>
        LET places == LinkPlaces(LastFile.root, LastSegments) IN
        /\ C5_UnderOwnSection(places, LastSegments)
        /\ \A i, j \in 1..Len(LastSegments) :
              i < j <=>
                 \/ places[i].section < places[j].section
                 \/ /\ places[i].section = places[j].section
                    /\ places[i].child < places[j].child

(* A section holding a link, a nested section with a link, and a link: the *)
(* three segments leave in the order first, third, second of the document. *)
C5_Witness ==
    /\ LastHandled /\ Len(LastSegments) = 3
    /\ DocPos(LastFile.root, LastSegments[2].timing_link_id)
          > DocPos(LastFile.root, LastSegments[3].timing_link_id)
    /\ LastSegments[1].section_id = LastSegments[2].section_id
    /\ LastSegments[3].section_id # LastSegments[1].section_id

---------------------------------------------------------------------------
(* Claims on parse_duration, checked under DurSpec. *)

Returned == dur_pc \in {"bus", "xml"}

(* The no-value result of the variant that was called. *)
NoValue == IF dur_pc = "bus" THEN 0 ELSE None

Counted(n) == IF n = Absent THEN 0 ELSE n

(* The input is PT, an optional <int>H, an optional <int>M and an optional *)
(* <int>S in that order, and nothing else.                                 *)
WellFormedDuration == dur_parts.formed /\ dur_parts.junk = <<>>

(* C6: for an input PT[<int>H][<int>M][<int>S], parse_duration of either   *)
(* variant returns hours*3600 + minutes*60 + seconds, a non-negative       *)
(* integer, a missing component counting as 0.                             *)
C6_WellFormedDecoded ==
    (Returned /\ WellFormedDuration) =>
        /\ dur_result = Counted(dur_parts.h) * 3600 + Counted(dur_parts.m) * 60
                          + Counted(dur_parts.s)
        /\ dur_result >= 0

(* PT1M30S has been decoded to 90 by the XMLExtractor variant. *)
C6_Witness ==
    /\ dur_pc = "xml" /\ WellFormedDuration
    /\ duration_str = <<"P", "T", "1", "M", "3", "0", "S">>
    /\ dur_result = 90

(* The pattern matches the input as a whole. *)
FullMatch(s) ==
    /\ s # NoneStr
    /\ DurationMatch(s).matched
    /\ DurationMatch(s).end = Len(s) + 1

(* C7: for every input that is empty, null, or does not match the duration *)
(* pattern as a whole, parse_duration returns the no-value result of its   *)
(* variant (0 in BusDataExtractor, None in XMLExtractor), never a decoded  *)
(* number.                                                                 *)
C7_NoValueUnlessFullMatch ==
    (Returned /\ (duration_str = <<>> \/ ~FullMatch(duration_str))) =>
        dur_result = NoValue

---------------------------------------------------------------------------
(* The timing links of a document: the JourneyPatternTimingLink children   *)
(* of its JourneyPatternSection elements, section by section.              *)
LinksOf(root) ==
    LET it == Iter(root) IN
    Flatten([p \in 1..Len(it) |->
                IF it[p].tag = "JourneyPatternSection"
                THEN SelectSeq(it[p].children, IsLink) ELSE <<>>])

ChildrenTagged(e, tag) == SelectSeq(e.children, LAMBDA c : c.tag = tag)

(* The stop reference a link resolves for a role (From, To): the stripped  *)
(* text of the last StopPointRef under the link's elements of that role,   *)
(* empty when there is none.                                               *)
ResolvedStop(link, role) ==
    LET roles == ChildrenTagged(link, role)
        refs == Flatten([i \in 1..Len(roles) |-> ChildrenTagged(roles[i], "StopPointRef")])
    IN IF refs = <<>> THEN <<>> ELSE Strip(refs[Len(refs)].text)

HasStopReference(link) ==
    ResolvedStop(link, "From") # <<>> \/ ResolvedStop(link, "To") # <<>>

---------------------------------------------------------------------------
(* The stripped text of the link's RunTime, empty when it has none. *)
RunTimeOf(link) ==
    IF ChildrenTagged(link, "RunTime") = <<>> THEN <<>>
    ELSE Strip(ChildrenTagged(link, "RunTime")[1].text)

(* C9: BusDataExtractor emits for a document as many segments as its       *)
(* JourneyPatternSection elements have JourneyPatternTimingLink children,  *)
(* one per link: a link without From (To) gives a record with an empty     *)
(* from (to) stop ID, a link whose RunTime is absent or is not a duration  *)
(* gives a record with runtime_seconds 0, and the document is processed    *)
(* without error.                                                          *)
C9_OneSegmentPerLink ==
    (BusHandled /\ LastFile.wellformed) =>
        LET links == LinksOf(LastFile.root)
            segs == results[idx].data
        IN /\ results[idx].status = "success"
           /\ Len(segs) = Len(links)
           /\ \A i \in 1..Len(segs) :
                 \E k \in 1..Len(links) :
                    /\ segs[i].timing_link_id = Attr(links[k], "id", <<>>)
                    /\ ChildrenTagged(links[k], "From") = <<>> => segs[i].from_stop_id = <<>>
                    /\ ChildrenTagged(links[k], "To") = <<>> => segs[i].to_stop_id = <<>>
                    /\ ~FullMatch(RunTimeOf(links[k])) => segs[i].runtime_seconds = 0

---------------------------------------------------------------------------
(* The value of the field is neither empty nor null.  runtime_seconds is   *)
(* an integer: it is a value unless it is the 0 that stands for a RunTime  *)
(* that was absent or not decoded.                                         *)
NotEmptyOrNull(seg, field) ==
    IF field = "runtime_seconds"
    THEN seg.runtime_seconds # 0 \/ FullMatch(seg.runtime_raw)
    ELSE seg[field] # <<>>

(* C10: for a non-empty aggregated segment list calculate_data_quality     *)
(* reports for each of the ten key fields populated = the number of        *)
(* segments whose value for the field is neither empty nor null, and       *)
(* completeness = populated / total * 100 rounded to 2 decimals; a decoded *)
(* runtime_seconds counts as populated.                                    *)
C10_QualityCounts ==
    (variant = "bus" /\ pc = "quality" /\ timing_segments # <<>>) =>
        /\ DOMAIN quality_metrics = key_fields
        /\ Cardinality(key_fields) = 10
        /\ \A field \in key_fields :
              LET total == Len(timing_segments)
                  filled == Cardinality({i \in 1..total :
                                NotEmptyOrNull(timing_segments[i], field)})
              IN /\ quality_metrics[field].populated = filled
                 /\ quality_metrics[field].completeness
                       = RoundHalfEven(filled * 10000, total)

---------------------------------------------------------------------------
(* C11: when the aggregated segment list is empty, the report returned by  *)
(* calculate_data_quality has an entry for every key field, with           *)
(* populated = 0 and completeness = 0.                                     *)
C11_EmptyListReport ==
    (variant = "bus" /\ pc = "quality" /\ timing_segments = <<>>) =>
        /\ DOMAIN quality_metrics = key_fields
        /\ \A field \in key_fields :
              /\ quality_metrics[field].populated = 0
              /\ quality_metrics[field].completeness = 0

---------------------------------------------------------------------------
(* The segment lists of the two runs over the file processed again: the    *)
(* run of the batch and the run of the later call.                         *)
BusFirstRun == results[idx].data
BusSecondRun == results[Len(results)].data
XmlBothRuns ==
    SelectSeq(all_records, LAMBDA record : record.source_file = LastFile.name)

(* C12: processing the same unmodified document twice with the same        *)
(* extractor object yields two identical segment lists, whatever other     *)
(* documents were processed before or between the two runs.                *)
C12_Idempotent ==
    pc = "again" =>
        /\ variant = "bus" => BusSecondRun = BusFirstRun
        /\ (variant = "xml" /\ LastFile.wellformed) =>
              XmlBothRuns = locals.records \o locals.records

---------------------------------------------------------------------------
(* The elements of a document with the tag, in document order. *)
Tagged(root, tag) == SelectSeq(Iter(root), LAMBDA e : e.tag = tag)

(* The stripped text of the first element with the tag inside e, empty     *)
(* when there is none.                                                     *)
FirstText(e, tag) ==
    IF Tagged(e, tag) = <<>> THEN <<>> ELSE Strip(Tagged(e, tag)[1].text)

(* C13: for a document with several Service elements, the line_name,       *)
(* service_code, service_origin and service_destination stamped on every   *)
(* segment are those of the first Service element in document order, in    *)
(* both extractors; values of later Service elements never appear.         *)
C13_FirstServiceWins ==
    (LastHandled /\ Tagged(LastFile.root, "Service") # <<>>) =>
        LET first == Tagged(LastFile.root, "Service")[1] IN
        \A i \in 1..Len(LastSegments) :
            /\ LastSegments[i].line_name = FirstText(first, "LineName")
            /\ LastSegments[i].service_code = FirstText(first, "ServiceCode")
            /\ LastSegments[i].service_origin = FirstText(first, "Origin")
            /\ LastSegments[i].service_destination = FirstText(first, "Destination")

---------------------------------------------------------------------------
(* C14: the operator_name BusDataExtractor stamps on every segment of a    *)
(* document is the OperatorShortName of the first Operator element in      *)
(* document order, also when several operators share an id or have none;   *)
(* with no Operator element it is the empty string.                        *)
C14_FirstOperatorWins ==
    (BusHandled /\ LastFile.wellformed) =>
        LET operators == Tagged(LastFile.root, "Operator") IN
        \A i \in 1..Len(results[idx].data) :
            results[idx].data[i].operator_name =
                IF operators = <<>> THEN <<>>
                ELSE FirstText(operators[1], "OperatorShortName")

---------------------------------------------------------------------------
(* The stripped texts of the ID children (StopPointRef, AtcoCode) of a     *)
(* stop element that are not empty, in child order.                        *)
StopIdValues(stop) ==
    LET ids == SelectSeq(stop.children,
                         LAMBDA c : c.tag \in {"StopPointRef", "AtcoCode"})
    IN SelectSeq([i \in 1..Len(ids) |-> Strip(ids[i].text)], LAMBDA t : t # <<>>)

StopElements(root) ==
    SelectSeq(Iter(root), LAMBDA e : e.tag \in {"StopPoint", "AnnotatedStopPointRef"})

(* C15: XMLExtractor.extract_stops indexes a stop element under the first  *)
(* non-empty ID value among its ID children: the keys of the index are     *)
(* those first values, and no stop with an ID is left out.                 *)
C15_FirstStopIdWins ==
    (XmlHandled /\ LastFile.wellformed) =>
        LET stops == StopElements(LastFile.root) IN
        DOMAIN locals.stops =
            {StopIdValues(stops[i])[1] :
                i \in {j \in 1..Len(stops) : StopIdValues(stops[j]) # <<>>}}

---------------------------------------------------------------------------
(* The sum of a count over the documents that were processed successfully. *)
RECURSIVE SumOfSuccessful(_, _)
SumOfSuccessful(rs, count) ==
    IF rs = <<>> THEN 0
    ELSE (IF Head(rs).status = "success" THEN Head(rs)[count] ELSE 0)
            + SumOfSuccessful(Tail(rs), count)

Successful(rs) == {i \in 1..Len(rs) : rs[i].status = "success"}

(* C16: the summary process_all_files returns for a non-empty folder has   *)
(* total_files = the number of documents, successful + failed =            *)
(* total_files, total_segments = the length of timing_segments = the sum   *)
(* of segments_found over the successful documents, and total_stops = the  *)
(* sum of stops_found over the successful documents; a failed document     *)
(* adds 0 to both totals.                                                  *)
C16_SummaryTotals ==
    (variant = "bus" /\ pc = "done") =>
        /\ xml_files # <<>>
        /\ summary_stats.total_files = Len(xml_files)
        /\ summary_stats.successful = Cardinality(Successful(results))
        /\ summary_stats.successful + summary_stats.failed = summary_stats.total_files
        /\ summary_stats.total_segments = Len(timing_segments)
        /\ summary_stats.total_segments = SumOfSuccessful(results, "segments_found")
        /\ summary_stats.total_stops = SumOfSuccessful(results, "stops_found")
        /\ \A i \in 1..Len(results) :
              results[i].status # "success" =>
                  results[i].segments_found = 0 /\ results[i].stops_found = 0

(* A batch of a failed document and successful ones with segments and      *)
(* stops has ended.                                                        *)
C16_Witness ==
    /\ variant = "bus" /\ pc = "done"
    /\ summary_stats.failed >= 1 /\ summary_stats.successful >= 2
    /\ summary_stats.total_segments > 3 /\ summary_stats.total_stops > 2

---------------------------------------------------------------------------
(* What the caller of the batch run gets back, and what it gets back for a *)
(* folder without XML documents.                                           *)
BatchReturn == IF variant = "bus" THEN process_all_files_return ELSE run_return
EmptyBatchReturn ==
    IF variant = "bus" THEN [type |-> "list", value |-> <<>>]
    ELSE [type |-> "NoneType", value |-> <<>>]

(* The batch run has returned. *)
BatchEnded == pc \in {"empty", "done", "norecords"}

(* C17: for a folder without XML documents the batch run returns the       *)
(* empty-batch value, having processed nothing and added no segment; and   *)
(* the caller can tell that outcome from a batch whose documents were      *)
(* processed, also when they produced no segment: such a batch returns     *)
(* another value.                                                          *)
C17_EmptyBatchDistinct ==
    /\ pc = "empty" =>
          /\ xml_files = <<>>
          /\ BatchReturn = EmptyBatchReturn
          /\ idx = 0 /\ results = <<>> /\ files_processed = 0
          /\ timing_segments = <<>> /\ all_records = <<>>
    /\ (BatchEnded /\ xml_files # <<>>) => BatchReturn # EmptyBatchReturn

---------------------------------------------------------------------------
(* The SequenceNumber attribute of the link's first element of the role    *)
(* (From, To), empty when the element or the attribute is absent.          *)
SequenceNumberOf(link, role) ==
    IF ChildrenTagged(link, role) = <<>> THEN <<>>
    ELSE Attr(ChildrenTagged(link, role)[1], "SequenceNumber", <<>>)

(* C18: the from_sequence / to_sequence of an emitted record is the value  *)
(* of the SequenceNumber attribute of the link's From / To element, and is *)
(* empty when the attribute is absent; in both extractors.                 *)
C18_SequenceFromAttribute ==
    LastHandled =>
        \A i \in 1..Len(LastSegments) :
            LET link == Iter(LastFile.root)[DocPos(LastFile.root,
                                                   LastSegments[i].timing_link_id)]
            IN /\ DictGet(LastSegments[i], "from_sequence", <<>>)
                     = SequenceNumberOf(link, "From")
               /\ DictGet(LastSegments[i], "to_sequence", <<>>)
                     = SequenceNumberOf(link, "To")

---------------------------------------------------------------------------
(* The stop occurrences of a segment list in segment order, the from role  *)
(* before the to role within a segment.                                    *)
Occurrences(segments) ==
    Flatten([i \in 1..Len(segments) |->
        <<[stop_id |-> segments[i].from_stop_id,
           stop_name |-> segments[i].from_stop_name,
           latitude |-> segments[i].from_latitude,
           longitude |-> segments[i].from_longitude],
          [stop_id |-> segments[i].to_stop_id,
           stop_name |-> segments[i].to_stop_name,
           latitude |-> segments[i].to_latitude,
           longitude |-> segments[i].to_longitude]>>])

FirstOccurrence(occ, stop_id) ==
    occ[CHOOSE k \in 1..Len(occ) :
            /\ occ[k].stop_id = stop_id
            /\ \A j \in 1..(k - 1) : occ[j].stop_id # stop_id]

(* C19: the unique-stops table of create_stops_csv has exactly one row per *)
(* distinct non-empty stop ID occurring as from_stop_id or to_stop_id of a *)
(* segment and no row with an empty stop ID; a row holds the name and the  *)
(* coordinates of the first occurrence of its ID; the returned count is    *)
(* the number of rows.                                                     *)
C19_UniqueStops ==
    (variant = "bus" /\ pc = "stops") =>
        LET occ == Occurrences(timing_segments) IN
        /\ {all_stops[r].stop_id : r \in 1..Len(all_stops)}
              = {occ[k].stop_id : k \in 1..Len(occ)} \ {<<>>}
        /\ \A r, q \in 1..Len(all_stops) :
              r # q => all_stops[r].stop_id # all_stops[q].stop_id
        /\ \A r \in 1..Len(all_stops) :
              all_stops[r] = FirstOccurrence(occ, all_stops[r].stop_id)
        /\ stops_count = Len(all_stops)

(* The table of a segment list in which a stop ID occurs with different    *)
(* names (first without a name, as a to stop, later with one) and in which *)
(* a segment has an empty to_stop_id.                                      *)
C19_Witness ==
    /\ variant = "bus" /\ pc = "stops" /\ stops_count >= 3
    /\ \E i \in 1..Len(timing_segments) : timing_segments[i].to_stop_id = <<>>
    /\ \E r \in 1..Len(all_stops), i \in 1..Len(timing_segments) :
          /\ all_stops[r].stop_id = timing_segments[i].from_stop_id
          /\ all_stops[r].stop_name = <<>>
          /\ timing_segments[i].from_stop_name # <<>>
          /\ \E j \in 1..(i - 1) :
                timing_segments[j].to_stop_id = all_stops[r].stop_id

---------------------------------------------------------------------------
(* C20: every segment of BusDataExtractor.timing_segments, across all      *)
(* documents of a batch, has the same fixed set of 24 field names,         *)
(* whichever sub-elements its link lacked, so the header save_to_csv takes *)
(* from the first segment's keys covers every later segment.               *)
C20_FixedFields ==
    variant = "bus" =>
        /\ \A i \in 1..Len(all_segments) :
              /\ Cardinality(DOMAIN all_segments[i]) = 24
              /\ DOMAIN all_segments[i] = DOMAIN all_segments[1]
        /\ \A i \in 1..Len(timing_segments) :
              /\ Cardinality(fieldnames(timing_segments)) = 24
              /\ DOMAIN timing_segments[i] = fieldnames(timing_segments)

(* A batch over two documents has ended whose segments include one of a    *)
(* link with From, To, RunTime and RouteLinkRef and, later, one of a link  *)
(* without any child.                                                      *)
C20_Witness ==
    /\ variant = "bus" /\ pc = "done"
    /\ \E i, j \in 1..Len(timing_segments) :
          /\ i < j
          /\ timing_segments[i].source_file # timing_segments[j].source_file
          /\ timing_segments[i].from_stop_id # <<>>
          /\ timing_segments[i].to_stop_id # <<>>
          /\ timing_segments[i].route_link_ref # <<>>
          /\ timing_segments[j].from_stop_id = <<>>
          /\ timing_segments[j].to_stop_id = <<>>
          /\ timing_segments[j].runtime_raw = <<>>

===========================================================================
